---- MODULE Spec2Model ----
(***************************************************************************)
(* A model of src/src/main.py: the squid access-log analyser.  main reads  *)
(* the input paths, ingests the files with pandas.read_csv into one        *)
(* DataFrame and runs the requested analyzers on it.  The pandas calls are *)
(* modelled by what they do on the DataFrame: rows are functions from      *)
(* column name to token, a missing cell is the token NaN.                  *)
(***************************************************************************)
EXTENDS Integers, Sequences, FiniteSets, TLC

VARIABLES args, input_path, pc, input_files, parsed_data, ingested,
          returned, printed, saved, log, exc

vars == <<args, input_path, pc, input_files, parsed_data, ingested,
          returned, printed, saved, log, exc>>

(* ------------------------------ bounds --------------------------------- *)

\* Lines in all the input files of one run together.
MaxLines == 3

\* Files in the file system of one run.
MaxFiles == 2

(* --------------------------- program constants ------------------------- *)

DF_NAMES == <<"timestamp", "header_bytes", "client_ip", "http_resp_code",
              "resp_size_bytes", "http_req_meth", "url", "username",
              "access_dest_ip", "res_type">>

SecondsPerDay == 86400

\* A missing cell (pandas pads a short row with NaN).
NaN == "NaN"

\* pandas.to_datetime of a missing timestamp (NaT), kept apart from every
\* second since the epoch.
NaT == -1

(* ------------------------------ helpers -------------------------------- *)

Range(s) == {s[i] : i \in DOMAIN s}

RECURSIVE Concat(_)
Concat(ss) == IF ss = <<>> THEN <<>> ELSE Head(ss) \o Concat(Tail(ss))

RECURSIVE SumSeq(_)
SumSeq(s) == IF s = <<>> THEN 0 ELSE Head(s) + SumSeq(Tail(s))

SetMin(S) == CHOOSE x \in S : \A y \in S : x <= y

SetMax(S) == CHOOSE x \in S : \A y \in S : x >= y

(* ------------------------- tokens and numbers -------------------------- *)

\* The decimal tokens of the model and the numbers they are read as.
NumberOf == [t \in {"0", "10", "20", "200", "172800"} |->
               CASE t = "0" -> 0
                 [] t = "10" -> 10
                 [] t = "20" -> 20
                 [] t = "200" -> 200
                 [] t = "172800" -> 172800]

IsNumeric(t) == t \in DOMAIN NumberOf

ToNumber(t) == NumberOf[t]

(* ------------------------------- input --------------------------------- *)

\* A log line is the sequence of its whitespace-separated tokens.
MkLine(ts, ip) == <<ts, "10", ip, "200", "20", "GET", "url", "-", "dst", "type">>

LineA0 == MkLine("0", "A")

LineB0 == MkLine("0", "B")

LineA2 == MkLine("172800", "A")

\* Fewer than 10 tokens.
LineShort == <<"0", "10">>

\* More than 10 tokens.
LineLong == Append(MkLine("0", "B"), "extra")

\* Ten tokens, a non-numeric timestamp.
LineBadTs == MkLine("abc", "A")

LineSet == {LineA0, LineB0, LineA2, LineShort, LineLong, LineBadTs}

LinesUpTo(n) == UNION {[1..k -> LineSet] : k \in 0..n}

\* A file that exists: either it can be opened and has lines, or it cannot
\* (withUnreadable: the files that cannot be opened are among them).
FilesUpTo(n, withUnreadable) ==
    {[readable |-> TRUE, lines |-> ls] : ls \in LinesUpTo(n)}
      \cup (IF withUnreadable THEN {[readable |-> FALSE, lines |-> <<>>]} ELSE {})

\* The sequences of k files holding at most b lines together.
RECURSIVE FileSeqs(_, _, _)
FileSeqs(k, b, withUnreadable) ==
    IF k = 0 THEN {<<>>}
    ELSE UNION {{<<f>> \o r : r \in FileSeqs(k - 1, b - Len(f.lines), withUnreadable)} :
                  f \in FilesUpTo(b, withUnreadable)}

MissingPath == [kind |-> "missing", files |-> <<>>]

FilePath(f) == [kind |-> "file", files |-> <<f>>]

DirPath(fs) == [kind |-> "dir", files |-> fs]

Direct(fs) == [i \in 1..Len(fs) |-> FilePath(fs[i])]

\* The ways the files are named on the command line (argparse nargs='+':
\* at least one path).
Layouts(fs) == {p \in {Direct(fs), <<DirPath(fs)>>, <<MissingPath>> \o Direct(fs),
                       <<DirPath(fs), MissingPath>>} : p # <<>>}

Flags == [most_freq_ip : BOOLEAN, least_freq_ip : BOOLEAN,
          events_sec : BOOLEAN, total_bytes : BOOLEAN]

NoFlags == [most_freq_ip |-> FALSE, least_freq_ip |-> FALSE,
            events_sec |-> FALSE, total_bytes |-> FALSE]

(* ------------------------------ read_csv ------------------------------- *)

EmptyDataFrame == [columns |-> <<>>, rows |-> <<>>]

\* The columns the first line has beyond the names given: pandas reads them
\* as an implicit index and the names label the columns after them.
ImplicitIndexCols(lines) ==
    IF lines # <<>> /\ Len(lines[1]) > Len(DF_NAMES)
    THEN Len(lines[1]) - Len(DF_NAMES) ELSE 0

ExpectedFields(lines) == Len(DF_NAMES) + ImplicitIndexCols(lines)

\* on_bad_lines="warn": a line with more fields than expected is skipped.
IsBadLine(lines, l) == Len(l) > ExpectedFields(lines)

KeptLines(lines) == SelectSeq(lines, LAMBDA l : ~IsBadLine(lines, l))

BadLines(lines) == SelectSeq(lines, LAMBDA l : IsBadLine(lines, l))

\* A line with fewer fields is padded with NaN.
Cell(l, k) == IF k <= Len(l) THEN l[k] ELSE NaN

RowOf(lines, l) ==
    LET shift == ImplicitIndexCols(lines)
    IN [c \in Range(DF_NAMES) |->
          Cell(l, shift + (CHOOSE k \in DOMAIN DF_NAMES : DF_NAMES[k] = c))]

read_csv(lines) ==
    LET kept == KeptLines(lines)
    IN [columns |-> DF_NAMES,
        rows |-> [i \in 1..Len(kept) |-> RowOf(lines, kept[i])]]

\* pandas.concat([df, new_df], axis=0)
concat(df, new_df) ==
    [columns |-> IF df.columns = <<>> THEN new_df.columns ELSE df.columns,
     rows |-> df.rows \o new_df.rows]

RECURSIVE ConcatFrames(_, _)
ConcatFrames(df, files) ==
    IF files = <<>> THEN df
    ELSE ConcatFrames(concat(df, read_csv(Head(files).lines)), Tail(files))

\* What parse_squid_log_file returns when every file opens.
parse_squid_log_file(files) == ConcatFrames(EmptyDataFrame, files)

ParseWarnings(files) ==
    Concat([i \in 1..Len(files) |->
              [j \in 1..Len(BadLines(files[i].lines)) |-> "Skipping line"]])

(* ------------------------------ analyzers ------------------------------ *)

Value(v) == [kind |-> "value", value |-> v]

Error(e) == [kind |-> "error", value |-> e]

NoResult == [kind |-> "none", value |-> ""]

HasColumn(df, c) == c \in Range(df.columns)

\* df[c] without the missing cells, in row order.
Present(df, c) ==
    LET col == [i \in 1..Len(df.rows) |-> df.rows[i][c]]
    IN SelectSeq(col, LAMBDA v : v # NaN)

Count(df, ip) == Cardinality({i \in 1..Len(df.rows) : df.rows[i]["client_ip"] = ip})

\* df['client_ip'].value_counts().index: the distinct client_ips (NaN
\* dropped) by descending count.  The counts are sorted with sort_values'
\* default kind, quicksort, which is not stable: the order among equal
\* counts depends on the numpy build and on the number of distinct values,
\* so every order of the ties is an outcome.
value_counts_index(df) ==
    LET ips == Range(Present(df, "client_ip"))
        n == Cardinality(ips)
    IN {s \in [1..n -> ips] :
          /\ \A i, j \in 1..n : i # j => s[i] # s[j]
          /\ \A i, j \in 1..n : i < j => Count(df, s[i]) >= Count(df, s[j])}

\* Mutant: .index[-1] taken where .index[0] is.
most_freq_ip_takes_last(df) ==
    IF ~HasColumn(df, "client_ip") THEN {Error("KeyError")}
    ELSE {IF s = <<>> THEN Error("IndexError") ELSE Value(s[Len(s)]) : s \in value_counts_index(df)}

\* .index[0]
calculate_most_freq_ip(df) ==
    IF ~HasColumn(df, "client_ip") THEN {Error("KeyError")}
    ELSE {IF s = <<>> THEN Error("IndexError") ELSE Value(s[1]) : s \in value_counts_index(df)}

\* Mutant: .index[0] taken where .index[-1] is.
least_freq_ip_takes_first(df) ==
    IF ~HasColumn(df, "client_ip") THEN {Error("KeyError")}
    ELSE {IF s = <<>> THEN Error("IndexError") ELSE Value(s[1]) : s \in value_counts_index(df)}

\* .index[-1]
calculate_least_freq_ip(df) ==
    IF ~HasColumn(df, "client_ip") THEN {Error("KeyError")}
    ELSE {IF s = <<>> THEN Error("IndexError") ELSE Value(s[Len(s)]) : s \in value_counts_index(df)}

\* pandas.to_datetime(df["timestamp"], unit='s'): a missing timestamp is NaT.
to_datetime(t) == IF t = NaN THEN NaT ELSE ToNumber(t)

\* df["time"] = ...: the column is added, or overwritten when it is there.
WithTime(df) ==
    [columns |-> IF HasColumn(df, "time") THEN df.columns ELSE Append(df.columns, "time"),
     rows |-> [i \in 1..Len(df.rows) |->
                 [c \in Range(df.columns) \cup {"time"} |->
                    IF c = "time" THEN to_datetime(df.rows[i]["timestamp"])
                    ELSE df.rows[i][c]]]]

\* The UTC calendar day of a time.
DayOf(t) == t \div SecondsPerDay

Days(df) == {DayOf(df.rows[i]["time"]) : i \in {j \in 1..Len(df.rows) : df.rows[j]["time"] # NaT}}

\* Mutant: only the days that have an event are counted.
ngroups_nonempty_days(df) == Cardinality(Days(df))

\* groupby(Grouper(key='time', freq='D')).ngroups: the daily bins from the
\* first day with an event to the last one, the empty ones between them
\* included.
ngroups(df) == IF Days(df) = {} THEN 0 ELSE SetMax(Days(df)) - SetMin(Days(df)) + 1

Rate(n, groups) == [kind |-> "rate", num |-> n, den |-> groups * SecondsPerDay]

\* The value calculate_events_sec returns (or the exception it raises) and
\* the DataFrame it leaves behind.
calculate_events_sec(df) ==
    IF ~HasColumn(df, "timestamp") THEN [result |-> Error("KeyError"), df |-> df]
    ELSE IF \E t \in Range(Present(df, "timestamp")) : ~IsNumeric(t)
    THEN [result |-> Error("ValueError"), df |-> df]
    ELSE LET timed == WithTime(df)
         IN [result |-> IF timed.rows = <<>> THEN Error("ZeroDivisionError")
                        ELSE IF ngroups(timed) = 0 THEN Error("ValueError")
                        ELSE Rate(Len(timed.rows), ngroups(timed)),
             df |-> timed]

\* df[c].sum(): missing cells are skipped.
ColumnSum(df, c) ==
    LET cells == Present(df, c)
    IN SumSeq([i \in 1..Len(cells) |-> ToNumber(cells[i])])

Bytes(n) == [kind |-> "bytes", n |-> n]

\* A column that holds a non-numeric token is summed as Python objects: the
\* sum raises, or is a concatenation of strings, as the column's values mix.
calculate_total_bytes(df) ==
    IF ~HasColumn(df, "header_bytes") THEN {Error("KeyError")}
    ELSE IF \E t \in Range(Present(df, "header_bytes")) \cup Range(Present(df, "resp_size_bytes")) :
              ~IsNumeric(t)
    THEN {Error("TypeError"), Value("concatenated tokens")}
    ELSE {Bytes(ColumnSum(df, "header_bytes") + ColumnSum(df, "resp_size_bytes"))}

\* The outcomes of one analyzer call: the result and the DataFrame after it.
Call(fn, df) ==
    CASE fn = "calculate_most_freq_ip" ->
           {[result |-> r, df |-> df] : r \in calculate_most_freq_ip(df)}
      [] fn = "calculate_least_freq_ip" ->
           {[result |-> r, df |-> df] : r \in calculate_least_freq_ip(df)}
      [] fn = "calculate_events_sec" -> {calculate_events_sec(df)}
      [] fn = "calculate_total_bytes" ->
           {[result |-> r, df |-> df] : r \in calculate_total_bytes(df)}

(* ------------------------------- state --------------------------------- *)

InitRest ==
    /\ pc = "read_input"
    /\ input_files = <<>>
    /\ parsed_data = EmptyDataFrame
    /\ ingested = EmptyDataFrame
    /\ returned = [fn |-> "none", result |-> NoResult]
    /\ printed = <<>>
    /\ saved = <<>>
    /\ log = <<>>
    /\ exc = "none"

\* A run of main: any flags, any files, named in any of the layouts.
Init ==
    /\ args \in Flags
    /\ \E k \in 0..MaxFiles : \E fs \in FileSeqs(k, MaxLines, TRUE) :
          input_path \in Layouts(fs)
    /\ InitRest

\* The analyzers called on what ingestion returns for files that all open.
InitAnalyzers ==
    /\ args = NoFlags
    /\ \E k \in 1..MaxFiles : \E fs \in FileSeqs(k, MaxLines, FALSE) :
          input_path = Direct(fs)
    /\ InitRest

(* ------------------------------ read_input ----------------------------- *)

\* os.path.isfile: the path itself; os.path.isdir: the files listed in it.
Resolve(paths) == Concat([i \in 1..Len(paths) |-> paths[i].files])

ReadInputLog(paths) ==
    Concat([i \in 1..Len(paths) |->
              IF paths[i].kind = "missing"
              THEN <<"INFO: path", "ERROR: Path does not exist">>
              ELSE <<"INFO: path">>])

read_input ==
    /\ pc = "read_input"
    /\ log' = log \o ReadInputLog(input_path)
    /\ IF Resolve(input_path) = <<>>
       THEN /\ pc' = "exited"
            /\ exc' = "SystemExit"
            /\ UNCHANGED input_files
       ELSE /\ pc' = "parse"
            /\ input_files' = Resolve(input_path)
            /\ UNCHANGED exc
    /\ UNCHANGED <<args, input_path, parsed_data, ingested, returned, printed, saved>>

(* ------------------------- parse_squid_log_file ------------------------ *)

Unreadable(files) == {i \in 1..Len(files) : ~files[i].readable}

\* The files read before the first one that does not open.
ReadBeforeFailure(files) ==
    IF Unreadable(files) = {} THEN files
    ELSE SubSeq(files, 1, SetMin(Unreadable(files)) - 1)

ParseLog(files) ==
    Concat([i \in 1..Len(ReadBeforeFailure(files)) |->
              <<"INFO: Processing">> \o ParseWarnings(<<files[i]>>)])
      \o (IF Unreadable(files) = {} THEN <<>> ELSE <<"INFO: Processing">>)

\* pandas.read_csv raises on a file it cannot open and nothing catches it.
Parse(next) ==
    /\ pc = "parse"
    /\ log' = log \o ParseLog(input_files)
    /\ IF Unreadable(input_files) # {}
       THEN /\ pc' = "crashed"
            /\ exc' = "OSError"
            /\ UNCHANGED <<parsed_data, ingested>>
       ELSE /\ pc' = next
            /\ parsed_data' = parse_squid_log_file(input_files)
            /\ ingested' = parse_squid_log_file(input_files)
            /\ UNCHANGED exc
    /\ UNCHANGED <<args, input_path, input_files, returned, printed, saved>>

ParseMain == Parse("most_freq_ip")

(* --------------------------------- main -------------------------------- *)

\* One "if <flag>: compute, print, save_output" block of main.
Block(here, flag, fn, label, next) ==
    /\ pc = here
    /\ IF flag
       THEN \E o \in Call(fn, parsed_data) :
              /\ parsed_data' = o.df
              /\ returned' = [fn |-> fn, result |-> o.result]
              /\ IF o.result.kind = "error"
                 THEN /\ pc' = "crashed"
                      /\ exc' = o.result.value
                      /\ UNCHANGED <<printed, saved>>
                 ELSE /\ pc' = next
                      /\ printed' = Append(printed, <<label, o.result>>)
                      /\ saved' = Append(saved, <<label, o.result>>)
                      /\ UNCHANGED exc
       ELSE /\ pc' = next
            /\ UNCHANGED <<parsed_data, returned, printed, saved, exc>>
    /\ UNCHANGED <<args, input_path, input_files, ingested, log>>

MostFreqIp ==
    Block("most_freq_ip", args.most_freq_ip, "calculate_most_freq_ip",
          "Most frequent IP", "least_freq_ip")

LeastFreqIp ==
    Block("least_freq_ip", args.least_freq_ip, "calculate_least_freq_ip",
          "Least frequent IP", "events_sec")

EventsSec ==
    Block("events_sec", args.least_freq_ip, "calculate_events_sec",
          "Events per second", "total_bytes")

TotalBytes ==
    Block("total_bytes", args.least_freq_ip, "calculate_total_bytes",
          "Total amount of bytes exchanged", "log_results")

LogResults ==
    /\ pc = "log_results"
    /\ pc' = "done"
    /\ log' = Append(log, "INFO: Results saved")
    /\ UNCHANGED <<args, input_path, input_files, parsed_data, ingested, returned,
                   printed, saved, exc>>

Next ==
    \/ read_input
    \/ ParseMain
    \/ MostFreqIp
    \/ LeastFreqIp
    \/ EventsSec
    \/ TotalBytes
    \/ LogResults

Spec == Init /\ [][Next]_vars

(* ------------------- the analyzers, called in any order ---------------- *)

ParseForAnalyzers == Parse("analyze")

CallAnalyzer(fn) ==
    /\ pc = "analyze"
    /\ \E o \in Call(fn, parsed_data) :
          /\ parsed_data' = o.df
          /\ returned' = [fn |-> fn, result |-> o.result]
    /\ UNCHANGED <<args, input_path, pc, input_files, ingested, printed, saved, log, exc>>

CallMostFreqIp == CallAnalyzer("calculate_most_freq_ip")

CallLeastFreqIp == CallAnalyzer("calculate_least_freq_ip")

CallEventsSec == CallAnalyzer("calculate_events_sec")

CallTotalBytes == CallAnalyzer("calculate_total_bytes")

NextAnalyzers ==
    \/ read_input
    \/ ParseForAnalyzers
    \/ CallMostFreqIp
    \/ CallLeastFreqIp
    \/ CallEventsSec
    \/ CallTotalBytes

SpecAnalyzers == InitAnalyzers /\ [][NextAnalyzers]_vars

(* ------------------------------- claims -------------------------------- *)

\* parse_squid_log_file has returned a DataFrame to main.
ParseReturned ==
    /\ pc \notin {"read_input", "parse", "exited"}
    /\ ~(pc = "crashed" /\ exc = "OSError")

Labels(pairs) == [i \in 1..Len(pairs) |-> pairs[i][1]]

Requested(a) ==
    [i \in 1..4 |-> <<a.most_freq_ip, a.least_freq_ip, a.events_sec, a.total_bytes>>[i]]

AllLabels == <<"Most frequent IP", "Least frequent IP", "Events per second",
               "Total amount of bytes exchanged">>

ExpectedLabels(a) ==
    LET idx == SelectSeq(<<1, 2, 3, 4>>, LAMBDA i : Requested(a)[i])
    IN [i \in 1..Len(idx) |-> AllLabels[idx[i]]]

\* C1: when main finishes, the pairs it printed and the pairs it saved are
\* one per requested statistic and none for an unrequested one, in the order
\* most-frequent-ip, least-frequent-ip, events-per-second, total-bytes.
C1_OutputMatchesFlags ==
    pc = "done" =>
      /\ Labels(printed) = ExpectedLabels(args)
      /\ Labels(saved) = ExpectedLabels(args)

NumericFields == {"timestamp", "header_bytes", "resp_size_bytes"}

IsWellFormed(l) ==
    /\ Len(l) = Len(DF_NAMES)
    /\ \A k \in DOMAIN DF_NAMES : DF_NAMES[k] \in NumericFields => IsNumeric(l[k])

IsPartialEvent(row) ==
    \/ \E c \in Range(DF_NAMES) : row[c] = NaN
    \/ \E c \in NumericFields : ~IsNumeric(row[c])

AllLines(files) == Concat([i \in 1..Len(files) |-> files[i].lines])

\* C2: every malformed line (fewer or more than 10 tokens, a non-numeric
\* token in a numeric field) yields a failure and adds no event: the number
\* of reported lines is the number of malformed lines, and no row of the
\* EventSet is a partial event.
C2_NoPartialEvent ==
    ParseReturned =>
      /\ \A i \in 1..Len(ingested.rows) : ~IsPartialEvent(ingested.rows[i])
      /\ Len(ParseWarnings(input_files))
           = Len(SelectSeq(AllLines(input_files), LAMBDA l : ~IsWellFormed(l)))

EventOf(l) == [c \in Range(DF_NAMES) |-> l[CHOOSE k \in DOMAIN DF_NAMES : DF_NAMES[k] = c]]

WellFormedEvents(files) ==
    LET good == SelectSeq(AllLines(files), IsWellFormed)
    IN [i \in 1..Len(good) |-> EventOf(good[i])]

\* C3: for files that all open, ingestion does not stop at a malformed line
\* and the EventSet is exactly the events of the well-formed lines, by file
\* position and then by line position.
C3_ExactlyWellFormedInOrder ==
    (pc \notin {"read_input", "parse", "exited"} /\ Unreadable(input_files) = {}) =>
      /\ ParseReturned
      /\ ingested.rows = WellFormedEvents(input_files)

\* C4: when a file of the list cannot be opened, ingestion still returns,
\* with the events of every file that opens, before and after that one.
C4_UnreadableFileSkipped ==
    (pc \notin {"read_input", "parse", "exited"} /\ Unreadable(input_files) # {}) =>
      /\ ParseReturned
      /\ \A i \in 1..Len(input_files) :
            input_files[i].readable =>
              Range(read_csv(input_files[i].lines).rows) \subseteq Range(ingested.rows)

Ips(df) == Present(df, "client_ip")

FirstSeen(df, ip) == SetMin({i \in 1..Len(df.rows) : df.rows[i]["client_ip"] = ip})

ReturnedBy(fn) == returned.fn = fn

ReturnedValue(fn) == returned.fn = fn /\ returned.result.kind = "value"

\* C5 as stated: the client_ip calculate_most_freq_ip returns has a count
\* not below any other's, and among those sharing the maximum it is the one
\* that appears first in ingestion order.
C5_MostFreqFirstSeen ==
    ReturnedValue("calculate_most_freq_ip") =>
      \A ip \in Range(Ips(parsed_data)) :
        /\ Count(parsed_data, returned.result.value) >= Count(parsed_data, ip)
        /\ Count(parsed_data, returned.result.value) = Count(parsed_data, ip)
             => FirstSeen(parsed_data, returned.result.value) <= FirstSeen(parsed_data, ip)

\* C5 amended: when a row of the EventSet has a client_ip,
\* calculate_most_freq_ip returns a client_ip whose count is not below any
\* other's (one of those sharing the maximum, whichever); when no row has
\* one it raises IndexError.
C5_MostFreqIsMaximal ==
    ReturnedBy("calculate_most_freq_ip") =>
      IF Ips(parsed_data) = <<>> THEN returned.result = Error("IndexError")
      ELSE /\ returned.result.kind = "value"
           /\ returned.result.value \in Range(Ips(parsed_data))
           /\ \A ip \in Range(Ips(parsed_data)) :
                 Count(parsed_data, returned.result.value) >= Count(parsed_data, ip)

\* The maximum is shared and the client_ip returned is not the first seen.
C5_Witness ==
    /\ ReturnedValue("calculate_most_freq_ip")
    /\ \E ip \in Range(Ips(parsed_data)) :
          /\ Count(parsed_data, ip) = Count(parsed_data, returned.result.value)
          /\ FirstSeen(parsed_data, ip) < FirstSeen(parsed_data, returned.result.value)

\* C6 as stated: the client_ip calculate_least_freq_ip returns has a count
\* not above any other's, and among those sharing the minimum it is the one
\* that appears first in ingestion order.
C6_LeastFreqFirstSeen ==
    ReturnedValue("calculate_least_freq_ip") =>
      \A ip \in Range(Ips(parsed_data)) :
        /\ Count(parsed_data, returned.result.value) <= Count(parsed_data, ip)
        /\ Count(parsed_data, returned.result.value) = Count(parsed_data, ip)
             => FirstSeen(parsed_data, returned.result.value) <= FirstSeen(parsed_data, ip)

\* C6 amended: when a row of the EventSet has a client_ip,
\* calculate_least_freq_ip returns a client_ip whose count is not above any
\* other's (one of those sharing the minimum, whichever); when no row has
\* one it raises IndexError.
C6_LeastFreqIsMinimal ==
    ReturnedBy("calculate_least_freq_ip") =>
      IF Ips(parsed_data) = <<>> THEN returned.result = Error("IndexError")
      ELSE /\ returned.result.kind = "value"
           /\ returned.result.value \in Range(Ips(parsed_data))
           /\ \A ip \in Range(Ips(parsed_data)) :
                 Count(parsed_data, returned.result.value) <= Count(parsed_data, ip)

\* The minimum is shared and the client_ip returned is not the first seen.
C6_Witness ==
    /\ ReturnedValue("calculate_least_freq_ip")
    /\ \E ip \in Range(Ips(parsed_data)) :
          /\ Count(parsed_data, ip) = Count(parsed_data, returned.result.value)
          /\ FirstSeen(parsed_data, ip) < FirstSeen(parsed_data, returned.result.value)

\* The UTC calendar days on which an event of the EventSet falls, from the
\* timestamps as ingested.
EventDays(df) == {ToNumber(t) \div SecondsPerDay : t \in Range(Present(df, "timestamp"))}

ReturnedRate == returned.fn = "calculate_events_sec" /\ returned.result.kind = "rate"

\* C7 as stated: the day count calculate_events_sec divides by is the
\* number of distinct UTC days on which an event falls (a day without events
\* between two days with events is not counted), and the result is
\* total_event_count / that_day_count / 86400.
C7_DistinctDayCount ==
    ReturnedRate =>
      /\ returned.result.num = Len(parsed_data.rows)
      /\ returned.result.den = Cardinality(EventDays(parsed_data)) * SecondsPerDay

\* C7 amended: calculate_events_sec returns a value exactly when some row
\* has a timestamp and no timestamp is non-numeric; the day count it divides
\* by is then the number of UTC days from the first day on which an event
\* falls to the last one, the days without events between them included, and
\* the result is total_row_count / that_day_count / 86400.
C7_DaySpanCount ==
    ReturnedBy("calculate_events_sec") =>
      /\ returned.result.kind = "rate" <=>
            /\ Present(parsed_data, "timestamp") # <<>>
            /\ \A t \in Range(Present(parsed_data, "timestamp")) : IsNumeric(t)
      /\ returned.result.kind = "rate" =>
            /\ returned.result.num = Len(parsed_data.rows)
            /\ returned.result.den =
                 (SetMax(EventDays(parsed_data)) - SetMin(EventDays(parsed_data)) + 1)
                   * SecondsPerDay

\* Events on two days with a day without events between them: the divisor
\* is three days.
C7_Witness ==
    /\ ReturnedRate
    /\ Cardinality(EventDays(parsed_data)) = 2
    /\ returned.result.den = 3 * SecondsPerDay
    /\ returned.result.num = Len(parsed_data.rows)

\* C8: when the EventSet is empty after ingestion, no requested statistic
\* ends the run with an uncaught exception: the run goes on to the remaining
\* statistics and, when total-bytes is requested, prints a total of 0.
C8_EmptyInputReported ==
    (ParseReturned /\ ingested.rows = <<>>) =>
      /\ pc # "crashed"
      /\ (pc = "done" /\ args.total_bytes) =>
            \E i \in 1..Len(printed) :
              /\ printed[i][1] = "Total amount of bytes exchanged"
              /\ printed[i][2] = Bytes(0)

\* C9: when the input paths resolve to no file, the run ends in read_input
\* before any file is parsed, any analyzer is called or anything is written
\* to the output file, and the condition is reported with an error message.
C9_NoInputFilesReported ==
    (pc # "read_input" /\ Resolve(input_path) = <<>>) =>
      /\ pc = "exited"
      /\ ingested = EmptyDataFrame
      /\ returned.fn = "none"
      /\ saved = <<>>
      /\ \E i \in 1..Len(log) : log[i] = "ERROR: Path does not exist"

\* C10: no analyzer changes the EventSet: after any calls of the analyzers
\* its rows and its columns are those ingestion returned.
C10_EventSetUnchanged ==
    ParseReturned => parsed_data = ingested

====
